---- MODULE Spec2Model ----
(***************************************************************************)
(* Model of the lazy, position-indexed character buffer of source-span     *)
(* (src/src/lazy.rs) and of the cursor rule it replays                     *)
(* (src/src/position.rs).                                                  *)
(*                                                                         *)
(* Characters are their code points (Rust `char` is a scalar value), so    *)
(* '\n' = 10, '\r' = 13, '\t' = 9, 'a' = 97, BEL = 7.  Vec indices are     *)
(* kept 0-based as in the source; a TLA+ sequence is read at index + 1.    *)
(***************************************************************************)
EXTENDS Integers, Sequences, FiniteSets

\* ------------------------------------------------------------------ bounds
MaxStream == 3      \* longest input stream (items) explored
MaxStart == 2       \* largest column of the anchor position
MaxLine == 2        \* largest line of a requested position
MaxCol == 2         \* largest ordinary column of a requested position
MaxClean == 5       \* longest error-free text stream explored
MaxTab == 17        \* largest small column a cursor is advanced from

\* usize::max_value() (the value on a 16-bit target; no arithmetic is done on it)
usize_MAX == 65535

VARIABLES
    stream,     \* the underlying `I: Iterator<Item = Result<char>>`, as the items it will yield
    p,          \* Buffer.p: the RefCell's Inner {input, error, data, lines, span}
    iters,      \* the Iter objects the caller holds, by slot
    last,       \* the last public operation called and what it returned
    surfaced    \* payloads of the stream errors handed to callers so far, in order

vars == <<stream, p, iters, last, surfaced>>

\* ------------------------------------------------- Option<Result<T>> values
None == [tag |-> "None", val |-> 0]
Ok(v) == [tag |-> "Ok", val |-> v]
Err(e) == [tag |-> "Err", val |-> e]
\* an index out of bounds on a Vec (data[i], lines[k]) aborts the call
Panic == [tag |-> "Panic", val |-> 0]

\* Inner.error: None
NoError == 0

\* ------------------------------------------------------------ position.rs
Position(l, c) == [line |-> l, column |-> c]

Position_end == Position(usize_MAX, usize_MAX)

\* #[derive(PartialOrd, Ord)]: lexicographic on (line, column)
PosLT(a, b) == a.line < b.line \/ (a.line = b.line /\ a.column < b.column)

PosGE(a, b) == ~PosLT(a, b)

\* std::cmp::max(a, b) on Position
PosMax(a, b) == IF PosLT(b, a) THEN a ELSE b

\* usize arithmetic: `+` wraps around at usize::MAX in a release build (a debug
\* build panics there instead)
usize_add(a, b) == (a + b) % (usize_MAX + 1)

next_column(pos) == Position(pos.line, usize_add(pos.column, 1))

reset_column(pos) == Position(pos.line, 0)

next_line(pos) == Position(usize_add(pos.line, 1), 0)

\* char::is_control: general category Cc
is_control(c) == c \in 0..31 \/ c \in 127..159

\* Position::next with the tab stop rounded up from the column itself: a tab
\* at a tab stop does not move
Position_next_ceil(pos, c) ==
    IF c = 10 THEN next_line(pos)
    ELSE IF c = 13 THEN reset_column(pos)
    ELSE IF c = 9 THEN Position(pos.line, ((pos.column + 7) \div 8) * 8)
    ELSE IF is_control(c) THEN pos
    ELSE next_column(pos)

Position_next(pos, c) ==
    IF c = 10 THEN next_line(pos)
    ELSE IF c = 13 THEN reset_column(pos)
    ELSE IF c = 9 THEN Position(pos.line, usize_add((pos.column \div 8) * 8, 8))
    ELSE IF is_control(c) THEN pos
    ELSE next_column(pos)

\* ------------------------------------------------------------------- Span
\* Span::from(position): the empty span at `position`
Span_from(position) == [start |-> position, end |-> position]

\* Span::push(c): end = next(end, c), start untouched
Span_push(span, c) == [span EXCEPT !.end = Position_next(@, c)]

\* ---------------------------------------------------------- lazy.rs: Inner
Inner_new(position) ==
    [input |-> 0, error |-> NoError, data |-> <<>>, lines |-> <<0>>,
     span |-> Span_from(position)]

\* self.input.next(): the item, or None once the stream is exhausted
input_next(b) == IF b.input < Len(stream) THEN stream[b.input + 1] ELSE None

RECURSIVE read_line_loop_rollback(_, _)
\* read_line that, on a stream error, drops the characters of the unfinished line
read_line_loop_rollback(b, line) ==
    IF line # b.span.end.line
    THEN [p |-> [b EXCEPT !.lines = Append(@, Len(b.data))], ok |-> TRUE]
    ELSE LET item == input_next(b)
             b1 == [b EXCEPT !.input = @ + 1]
         IN  IF item.tag = "Ok"
             THEN read_line_loop_rollback([b1 EXCEPT !.data = Append(@, item.val),
                                                     !.span = Span_push(@, item.val)], line)
             ELSE IF item.tag = "Err"
             THEN [p |-> [b1 EXCEPT !.error = item.val,
                                    !.data = SubSeq(@, 1, b.lines[Len(b.lines)])],
                   ok |-> FALSE]
             ELSE [p |-> b, ok |-> FALSE]

RECURSIVE read_line_loop_at_newline(_, _)
\* read_line that registers the index of the newline itself as the line start
read_line_loop_at_newline(b, line) ==
    IF line # b.span.end.line
    THEN [p |-> [b EXCEPT !.lines = Append(@, Len(b.data) - 1)], ok |-> TRUE]
    ELSE LET item == input_next(b)
             b1 == [b EXCEPT !.input = @ + 1]
         IN  IF item.tag = "Ok"
             THEN read_line_loop_at_newline([b1 EXCEPT !.data = Append(@, item.val),
                                                       !.span = Span_push(@, item.val)], line)
             ELSE IF item.tag = "Err"
             THEN [p |-> [b1 EXCEPT !.error = item.val], ok |-> FALSE]
             ELSE [p |-> b, ok |-> FALSE]

RECURSIVE read_line_loop(_, _)
\* the `while line == self.span.end().line` loop of read_line and what follows it
read_line_loop(b, line) ==
    IF line # b.span.end.line
    THEN [p |-> [b EXCEPT !.lines = Append(@, Len(b.data))], ok |-> TRUE]
    ELSE LET item == input_next(b)
             b1 == [b EXCEPT !.input = @ + 1]
         IN  IF item.tag = "Ok"
             THEN read_line_loop([b1 EXCEPT !.data = Append(@, item.val),
                                            !.span = Span_push(@, item.val)], line)
             ELSE IF item.tag = "Err"
             THEN [p |-> [b1 EXCEPT !.error = item.val], ok |-> FALSE]
             ELSE [p |-> b, ok |-> FALSE]

read_line(b) ==
    IF b.error = NoError
    THEN read_line_loop(b, b.span.end.line)
    ELSE [p |-> b, ok |-> FALSE]

\* std::mem::swap(&mut error, &mut self.error) and the match on what came out
take_error(b) ==
    [p |-> [b EXCEPT !.error = NoError],
     res |-> IF b.error # NoError THEN Err(b.error) ELSE None]

RECURSIVE fill_to_pos_gt(_, _)
\* the fill loop with `pos > self.span.end()`: a position at the end is not filled
fill_to_pos_gt(b, pos) ==
    IF PosLT(b.span.end, pos)
    THEN LET r == read_line(b) IN IF r.ok THEN fill_to_pos_gt(r.p, pos) ELSE r.p
    ELSE b

RECURSIVE fill_to_pos(_, _)
\* while pos >= self.span.end() && self.read_line() {}
fill_to_pos(b, pos) ==
    IF PosGE(pos, b.span.end)
    THEN LET r == read_line(b) IN IF r.ok THEN fill_to_pos(r.p, pos) ELSE r.p
    ELSE b

RECURSIVE walk(_, _, _, _)
\* while cursor < pos { cursor = cursor.next(self.data[i]); i += 1 } and the test after it
walk(b, pos, cursor, i) ==
    IF PosLT(cursor, pos)
    THEN IF i >= Len(b.data) THEN Panic
         ELSE walk(b, pos, Position_next(cursor, b.data[i + 1]), i + 1)
    ELSE IF cursor = pos THEN Ok(i) ELSE None

\* index_at that starts its walk at the newest registered line
Inner_index_at_newest_line(b, pos) ==
    IF PosLT(pos, b.span.start)
    THEN [p |-> b, res |-> None]
    ELSE LET b1 == fill_to_pos(b, pos)
         IN  IF PosGE(pos, b1.span.end)
             THEN take_error(b1)
             ELSE [p |-> b1,
                   res |-> walk(b1, pos, Position(pos.line, 0), b1.lines[Len(b1.lines)])]

\* index_at whose before-the-start case reports like an unreachable position
Inner_index_at_unreachable(b, pos) ==
    IF PosLT(pos, b.span.start)
    THEN take_error(b)
    ELSE LET b1 == fill_to_pos(b, pos)
         IN  IF PosGE(pos, b1.span.end)
             THEN take_error(b1)
             ELSE [p |-> b1,
                   res |-> walk(b1, pos, Position(pos.line, 0),
                                b1.lines[pos.line - b1.span.start.line + 1])]

Inner_index_at(b, pos) ==
    IF PosLT(pos, b.span.start)
    THEN [p |-> b, res |-> None]
    ELSE LET b1 == fill_to_pos(b, pos)
         IN  IF PosGE(pos, b1.span.end)
             THEN take_error(b1)
             ELSE LET relative_line == pos.line - b1.span.start.line
                  IN  IF relative_line >= Len(b1.lines)
                      THEN [p |-> b1, res |-> Panic]
                      ELSE [p |-> b1,
                            res |-> walk(b1, pos, Position(pos.line, 0),
                                         b1.lines[relative_line + 1])]

RECURSIVE fill_to_index(_, _)
\* while i >= self.data.len() && self.read_line() {}
fill_to_index(b, i) ==
    IF i >= Len(b.data)
    THEN LET r == read_line(b) IN IF r.ok THEN fill_to_index(r.p, i) ELSE r.p
    ELSE b

\* get that hands out the newest stored character instead of the one at i
Inner_get_last(b, i) ==
    LET b1 == fill_to_index(b, i)
    IN  IF i >= Len(b1.data)
        THEN take_error(b1)
        ELSE [p |-> b1, res |-> Ok(b1.data[Len(b1.data)])]

Inner_get(b, i) ==
    LET b1 == fill_to_index(b, i)
    IN  IF i >= Len(b1.data)
        THEN take_error(b1)
        ELSE [p |-> b1, res |-> Ok(b1.data[i + 1])]

\* --------------------------------------------------------- lazy.rs: Buffer
Buffer_at(b, pos) ==
    LET r == Inner_index_at(b, pos)
    IN  IF r.res.tag = "Ok" THEN Inner_get(r.p, r.res.val) ELSE r

\* iter() written like iter_from(start): it looks its start position up
Buffer_iter_lookup(b) ==
    LET r == Inner_index_at(b, b.span.start)
    IN  [p |-> r.p,
         it |-> [i |-> r.res, pos |-> b.span.start, end |-> Position_end]]

\* Buffer::iter: starts at index 0 without consulting the line index
Buffer_iter(b) ==
    [p |-> b,
     it |-> [i |-> Ok(0), pos |-> b.span.start, end |-> Position_end]]

\* Buffer::iter_span; the Iter's `i` is whatever index_at(pos) returned
Buffer_iter_span(b, span) ==
    LET pos == PosMax(b.span.start, span.start)
        r == Inner_index_at(b, pos)
    IN  [p |-> r.p, it |-> [i |-> r.res, pos |-> pos, end |-> span.end]]

\* Buffer::iter_from: the same, up to Position::end()
Buffer_iter_from(b, from) ==
    LET pos == PosMax(b.span.start, from)
        r == Inner_index_at(b, pos)
    IN  [p |-> r.p, it |-> [i |-> r.res, pos |-> pos, end |-> Position_end]]

\* ----------------------------------------------------------- lazy.rs: Iter
\* Iterator::next for Iter: the buffer after, the iterator after, the item
Iter_next(b, it) ==
    IF PosGE(it.pos, it.end)
    THEN [p |-> b, it |-> it, res |-> None]
    ELSE IF it.i.tag = "Ok"
    THEN LET r == Inner_get(b, it.i.val)
         IN  IF r.res.tag = "Ok"
             THEN [p |-> r.p,
                   it |-> [it EXCEPT !.pos = Position_next(@, r.res.val),
                                     !.i = Ok(it.i.val + 1)],
                   res |-> r.res]
             ELSE [p |-> r.p, it |-> it, res |-> r.res]
    ELSE IF it.i.tag = "None"
    THEN [p |-> b, it |-> it, res |-> None]
    ELSE [p |-> b, it |-> [it EXCEPT !.i = None], res |-> it.i]

RECURSIVE into_string_loop(_, _, _)
\* for c in self { string.push(c?) }; Ok(string)
into_string_loop(b, it, string) ==
    LET r == Iter_next(b, it)
    IN  IF r.res.tag = "Ok" THEN into_string_loop(r.p, r.it, Append(string, r.res.val))
        ELSE IF r.res.tag = "None" THEN [p |-> r.p, res |-> Ok(string)]
        ELSE [p |-> r.p, res |-> r.res]

Iter_into_string(b, it) == into_string_loop(b, it, <<>>)

\* ------------------------------------------------------------ the program
\* The caller's side: which public operation is called with which argument.

\* the characters streams are built from: 'a', '\n', '\r', '\t', and BEL
\* (a zero-width control character)
Chars == {97, 10, 13, 9, 7}

\* 'a', 'b'
Printable == {97, 98}

\* marks the places of a stream where the source yields Some(Err(_))
ErrItem == -1

\* every stream of at most MaxStream items over `alphabet`; the payload of an
\* error item is its place in the stream, so that two errors are told apart
Streams(alphabet, longest) ==
    UNION {{[k \in 1..n |-> IF f[k] = ErrItem THEN Err(k) ELSE Ok(f[k])] :
                f \in [1..n -> alphabet]} : n \in 0..longest}

Anchors == {Position(l, c) : l \in 0..1, c \in 0..MaxStart}

\* positions a caller asks for: a small grid, plus the first tab stop
Positions == {Position(l, c) : l \in 0..MaxLine, c \in (0..MaxCol) \cup {8}}

NoPos == Position(0, 0)

\* a slot that holds no iterator
NoIter ==
    [live |-> FALSE, done |-> FALSE, kind |-> "none",
     span |-> Span_from(NoPos),
     it |-> [i |-> None, pos |-> NoPos, end |-> NoPos], out |-> <<>>]

IterIds == {1, 2}

Start ==
    [op |-> "new", id |-> 0, pos |-> NoPos, end |-> NoPos, res |-> None]

InitWith(streams, anchors) ==
    /\ stream \in streams
    /\ \E position \in anchors : p = Inner_new(position)
    /\ iters = [k \in IterIds |-> NoIter]
    /\ last = Start
    /\ surfaced = <<>>

\* what the caller learns of a stream error: its payload, once per delivery
Surface(res) == IF res.tag = "Err" THEN Append(surfaced, res.val) ELSE surfaced

Alive == last.res.tag # "Panic"

\* buffer.index_at(pos)
IndexAt(pos) ==
    /\ Alive
    /\ LET r == Inner_index_at(p, pos)
       IN  /\ p' = r.p
           /\ last' = [op |-> "index_at", id |-> 0, pos |-> pos, end |-> pos, res |-> r.res]
           /\ surfaced' = Surface(r.res)
    /\ UNCHANGED <<stream, iters>>

\* buffer.at(pos)
At(pos) ==
    /\ Alive
    /\ LET r == Buffer_at(p, pos)
       IN  /\ p' = r.p
           /\ last' = [op |-> "at", id |-> 0, pos |-> pos, end |-> pos, res |-> r.res]
           /\ surfaced' = Surface(r.res)
    /\ UNCHANGED <<stream, iters>>

\* an iterator is made in the free slot k
Construct(k, kind, span, r) ==
    /\ Alive
    /\ ~iters[k].live
    /\ p' = r.p
    /\ IF r.it.i.tag = "Panic"
       THEN /\ iters' = iters
            /\ last' = [op |-> kind, id |-> k, pos |-> span.start, end |-> span.end,
                        res |-> Panic]
       ELSE /\ iters' = [iters EXCEPT ![k] =
                            [live |-> TRUE, done |-> FALSE, kind |-> kind,
                             span |-> span, it |-> r.it, out |-> <<>>]]
            /\ last' = [op |-> kind, id |-> k, pos |-> span.start, end |-> span.end,
                        res |-> None]
    /\ UNCHANGED <<stream, surfaced>>

\* let it = buffer.iter()
NewIter(k) ==
    Construct(k, "iter", [start |-> p.span.start, end |-> Position_end], Buffer_iter(p))

\* let it = buffer.iter_from(pos)
NewIterFrom(k, pos) ==
    Construct(k, "iter_from", [start |-> pos, end |-> Position_end], Buffer_iter_from(p, pos))

\* let it = buffer.iter_span(span)
NewIterSpan(k, span) ==
    Construct(k, "iter_span", span, Buffer_iter_span(p, span))

\* it.next() on the iterator of slot k, until it has yielded nothing
IterNext(k) ==
    /\ Alive
    /\ iters[k].live /\ ~iters[k].done
    /\ LET r == Iter_next(p, iters[k].it)
       IN  /\ p' = r.p
           /\ iters' = [iters EXCEPT ![k].it = r.it,
                                     ![k].done = (r.res.tag = "None"),
                                     ![k].out = IF r.res.tag = "None" THEN @
                                                ELSE Append(@, r.res)]
           /\ last' = [op |-> "next", id |-> k, pos |-> iters[k].it.pos,
                       end |-> iters[k].it.end, res |-> r.res]
           /\ surfaced' = Surface(r.res)
    /\ UNCHANGED stream

\* buffer.iter_span(buffer.span()).into_string()
RoundTrip ==
    /\ Alive
    /\ LET c == Buffer_iter_span(p, p.span)
           r == IF c.it.i.tag = "Panic" THEN [p |-> c.p, res |-> Panic]
                ELSE Iter_into_string(c.p, c.it)
       IN  /\ p' = r.p
           /\ last' = [op |-> "round_trip", id |-> 0, pos |-> p.span.start,
                       end |-> p.span.end, res |-> r.res]
           /\ surfaced' = Surface(r.res)
    /\ UNCHANGED <<stream, iters>>

\* ---------------------------------------------------------- specifications
Lookup(positions) == \E pos \in positions : IndexAt(pos) \/ At(pos)

\* Spec: position lookups and whole-buffer round trips, on any stream from any anchor
Init == InitWith(Streams(Chars \cup {ErrItem}, MaxStream), Anchors)

Next == Lookup(Positions) \/ RoundTrip

Spec == Init /\ [][Next]_vars

\* SpecFrame: position lookups on streams of letters, newlines and errors
FramePositions == {Position(l, c) : l \in 0..2, c \in 0..MaxStart}

InitFrame == InitWith(Streams({97, 10, ErrItem}, MaxStream), Anchors)

NextFrame == Lookup(FramePositions)

SpecFrame == InitFrame /\ [][NextFrame]_vars

\* SpecClean: at() in any order on an error-free text anchored at (0,0)
CleanPositions == {Position(l, c) : l \in 0..MaxLine, c \in 0..MaxCol}

InitClean == InitWith(Streams(Printable \cup {10}, MaxClean), {Position(0, 0)})

NextClean == \E pos \in CleanPositions : At(pos)

SpecClean == InitClean /\ [][NextClean]_vars

\* SpecIter: one iterator made and driven to its end, between at() calls
IterPositions == {Position(l, c) : l \in 0..1, c \in 0..MaxCol}

Spans == {[start |-> a, end |-> b] : a \in IterPositions, b \in IterPositions}

InitIter == InitWith(Streams({97, 10, ErrItem}, MaxStream), Anchors)

NextIter ==
    \/ \E pos \in IterPositions : At(pos)
    \/ NewIter(1)
    \/ \E pos \in IterPositions : NewIterFrom(1, pos)
    \/ \E span \in {s \in Spans : ~PosLT(s.end, s.start)} : NewIterSpan(1, span)
    \/ IterNext(1)

SpecIter == InitIter /\ [][NextIter]_vars

\* SpecLazy: the same on a buffer anchored at a line start or inside a line,
\* with at() asked on line starts only
LazyProbes == {Position(l, 0) : l \in 0..1}

InitLazy ==
    InitWith(Streams({97, 10, ErrItem}, MaxStream), {Position(0, 0), Position(1, 1)})

NextLazy ==
    \/ \E pos \in LazyProbes : At(pos)
    \/ NewIter(1)
    \/ \E pos \in IterPositions : NewIterFrom(1, pos)
    \/ \E span \in {s \in Spans : ~PosLT(s.end, s.start)} : NewIterSpan(1, span)
    \/ IterNext(1)

SpecLazy == InitLazy /\ [][NextLazy]_vars

\* SpecPos: the cursor rule applied to a position, again and again while the
\* cursor stays in the small grid; the grid also holds the last columns and
\* the last line a usize can count
Cursors ==
    {Position(l, c) : l \in {0, 1, usize_MAX},
                      c \in (0..MaxTab) \cup ((usize_MAX - 9)..usize_MAX)}

\* pos.next(c): `last` keeps the position before, the character and the result
Advance(c) ==
    /\ last.end \in Cursors
    /\ last' = [op |-> "pos_next", id |-> c, pos |-> last.end,
                end |-> Position_next(last.end, c), res |-> None]
    /\ UNCHANGED <<stream, p, iters, surfaced>>

InitPos ==
    /\ stream = <<>>
    /\ p = Inner_new(NoPos)
    /\ iters = [k \in IterIds |-> NoIter]
    /\ \E pos \in Cursors : last = [Start EXCEPT !.pos = pos, !.end = pos]
    /\ surfaced = <<>>

NextPos == \E c \in Chars \cup Printable : Advance(c)

SpecPos == InitPos /\ [][NextPos]_vars

\* SpecTab: position lookups on streams with tabs, from the first column and
\* from a column past the first tab stop
TabAnchors == {Position(0, 0), Position(0, 9)}

TabPositions == {Position(0, c) : c \in {0, 1, 3, 8, 10}} \cup {Position(1, 0)}

InitTab == InitWith(Streams({97, 9, 10, ErrItem}, MaxStream), TabAnchors)

NextTab == Lookup(TabPositions)

SpecTab == InitTab /\ [][NextTab]_vars

\* SpecTwo: two iterators made by iter() on one buffer over an error-free
\* stream, their next() calls interleaved in any order with position lookups
TwoProbes == {Position(0, 1), Position(1, 0)}

InitTwo == InitWith(Streams({97, 10, 13}, MaxStream), {Position(0, 0), Position(0, 1)})

NextTwo ==
    \/ \E k \in IterIds : NewIter(k) \/ IterNext(k)
    \/ Lookup(TwoProbes)

SpecTwo == InitTwo /\ [][NextTwo]_vars

\* SpecCache: lookups and one iterator, in any order, on an error-free stream
CachePositions == {Position(l, c) : l \in 0..1, c \in (0..MaxCol) \cup {8}}

InitCache ==
    InitWith(Streams({97, 10, 13, 9}, MaxStream), {Position(0, 0), Position(0, 2)})

NextCache ==
    \/ \E pos \in CachePositions : At(pos)
    \/ \E pos \in LazyProbes : IndexAt(pos)
    \/ NewIter(1)
    \/ IterNext(1)

SpecCache == InitCache /\ [][NextCache]_vars

\* ------------------------------------------------------------------ claims
Lookups == {"index_at", "at"}

\* an error item has been pulled from the stream (read_line has recorded it)
ErrorRecorded == \E k \in 1..p.input : stream[k].tag = "Err"

\* C1: when at(p) / index_at(p) has returned the stream error because the stream
\* failed before p was covered, the same request made again straight after
\* returns not-available (None).
C1_ErrorThenNone ==
    [][(/\ last.op \in Lookups /\ last.res.tag = "Err"
        /\ PosGE(last.pos, p.span.end)
        /\ last'.op \in Lookups /\ last'.pos = last.pos)
       => last'.res = None]_vars

\* C2: once a stream error has been recorded, no later operation pulls another
\* item from the underlying stream, also after the error was handed to a caller.
C2_FailStop == [][ErrorRecorded => p'.input = p.input]_vars

\* C4: iter_span(buffer.span()).into_string() returns exactly the characters
\* consumed from the stream so far, in order (the store as the call found it,
\* or as it left it).
C4_RoundTrip ==
    [][last'.op = "round_trip"
       => (last'.res = Ok(p.data) \/ last'.res = Ok(p'.data))]_vars

\* C5: index_at and at never panic, whatever the anchor, the stream and the
\* position asked for: every call returns None, Some(Err) or Some(Ok).
C5_NeverPanics ==
    last.op \in Lookups => last.res.tag \in {"None", "Err", "Ok"}

\* the text of an error-free stream, and its lines as a reader of the text
\* counts them: line l starts right after the l-th '\n'
Text == [k \in 1..Len(stream) |-> stream[k].val]

NewlinesBefore(i) == Cardinality({k \in 1..i : Text[k] = 10})

\* the c-th character of the l-th line of the text (its '\n' included, at
\* column = line length), if the text has one
CharAt(l, c) ==
    LET at == {i \in 1..Len(Text) :
                  /\ NewlinesBefore(i - 1) = l
                  /\ Cardinality({k \in 1..(i - 1) : NewlinesBefore(k - 1) = l}) = c}
    IN  IF at = {} THEN None ELSE Ok(Text[CHOOSE i \in at : TRUE])

\* C6: anchored at (0,0) over printable characters and '\n', at((l,c)) is the
\* c-th character of the l-th line of the stream, the '\n' at column = line
\* length, and not-available past the newline or past the end of the stream,
\* whatever was asked before.
C6_AtIsLineColumn ==
    last.op = "at" => last.res = CharAt(last.pos.line, last.pos.column)

\* on "ab\nba", already buffered to its end, (0,2) is asked and is the newline
C6_Witness ==
    /\ stream = <<Ok(97), Ok(98), Ok(10), Ok(98), Ok(97)>>
    /\ last.op = "at" /\ last.pos = Position(0, 2) /\ last.res = Ok(10)
    /\ Len(p.data) = 5

\* C7: at(pos) and index_at(pos) with pos before the buffer's start return
\* not-available, pull nothing from the stream and leave the store, the line
\* index, the span and the error slot as they were.
C7_BeforeStartIsNoOp ==
    [][(last'.op \in Lookups /\ PosLT(last'.pos, p.span.start))
       => (last'.res = None /\ p' = p /\ surfaced' = surfaced)]_vars

\* a position before the start was asked while an error was pending, and the
\* error is still there
C7_Witness ==
    /\ last.op \in Lookups /\ PosLT(last.pos, p.span.start)
    /\ last.res = None
    /\ p.error # NoError

IterKinds == {"iter", "iter_from", "iter_span"}

\* how often the error with payload e was handed to a caller
TimesSurfaced(e) == Cardinality({n \in 1..Len(surfaced) : surfaced[n] = e})

\* an iterator not yet driven to its end holds the error, to yield it
HeldByIter(e) ==
    \E k \in IterIds :
        iters[k].live /\ ~iters[k].done /\ iters[k].it.i = Err(e)

\* C3: every error item pulled from the stream is handed to callers exactly
\* once: never twice, and never lost (it is pending in the buffer, or held by
\* an iterator that has not yet yielded nothing, or it was delivered).
C3_ErrorsSurfacedOnce ==
    \A e \in 1..p.input :
        stream[e].tag = "Err"
        => /\ TimesSurfaced(e) <= 1
           /\ TimesSurfaced(e) = 1 \/ p.error = e \/ HeldByIter(e)

RECURSIVE PosAfter(_)
\* the stream position after the first n characters of the text
PosAfter(n) ==
    IF n = 0 THEN p.span.start ELSE Position_next(PosAfter(n - 1), Text[n])

RECURSIVE CharsIn(_, _, _)
\* the characters among the first n of the text whose position is in [from, to)
CharsIn(from, to, n) ==
    IF n = 0 THEN <<>>
    ELSE LET at == PosAfter(n - 1)
         IN  IF PosGE(at, from) /\ PosLT(at, to)
             THEN Append(CharsIn(from, to, n - 1), Ok(Text[n]))
             ELSE CharsIn(from, to, n - 1)

ErrorFree == \A k \in 1..Len(stream) : stream[k].tag = "Ok"

\* C8: on an error-free stream, iter_span(span) driven to its end has yielded,
\* in stream order, exactly the characters whose positions are in
\* [max(span.start, buffer start), span.end).
C8_IterSpanYieldsSpan ==
    \A k \in IterIds :
        (ErrorFree /\ iters[k].kind = "iter_span" /\ iters[k].done)
        => iters[k].out = CharsIn(PosMax(p.span.start, iters[k].span.start),
                                  iters[k].span.end, Len(stream))

RECURSIVE Drive(_, _, _)
\* the items an iterator yields when next() is called until it yields nothing
Drive(b, it, out) ==
    LET r == Iter_next(b, it)
    IN  IF r.res.tag = "None" THEN out ELSE Drive(r.p, r.it, Append(out, r.res))

Items(c) == IF c.it.i.tag = "Panic" THEN <<Panic>> ELSE Drive(c.p, c.it, <<>>)

\* C9: from any state of any buffer, iter_from(pos) with pos <= buffer start
\* yields the same sequence of items as iter().
C9_IterFromIsIter ==
    \A pos \in IterPositions :
        ~PosLT(p.span.start, pos)
        => Items(Buffer_iter_from(p, pos)) = Items(Buffer_iter(p))

\* C10 as stated: constructing an iterator with iter, iter_from or iter_span
\* pulls nothing and leaves the buffer as it was.
C10_ConstructionIsLazy == [][last'.op \in IterKinds => p' = p]_vars

NewlinesIn(data) == Cardinality({k \in 1..Len(data) : data[k] = 10})

\* C10, amended: iter() never touches the buffer; iter_from and iter_span leave
\* it untouched when their clamped start position is already covered (before
\* the buffer's span end); otherwise they look it up while being constructed,
\* which can read the stream.  A next() call extends the store only when the
\* iterator's index is at the end of the store, and then by at most one line.
C10_ConstructionReadsToStart ==
    [][/\ (/\ last'.op \in IterKinds
           /\ \/ last'.op = "iter"
              \/ PosLT(PosMax(p.span.start, last'.pos), p.span.end))
          => p' = p
       /\ (last'.op = "next" /\ p'.data # p.data)
          => /\ iters[last'.id].it.i = Ok(Len(p.data))
             /\ NewlinesIn(p'.data) <= NewlinesIn(p.data) + 1
             /\ NewlinesIn(p'.data) = NewlinesIn(p.data) + 1
                => p'.data[Len(p'.data)] = 10]_vars

\* an iterator was made from a covered position of a part-read stream, and
\* nothing more was read
C10_Witness ==
    /\ last.op \in {"iter_from", "iter_span"}
    /\ PosLT(PosMax(p.span.start, last.pos), p.span.end)
    /\ iters[1].live /\ iters[1].it.i.tag = "Ok"
    /\ p.input < Len(stream)

\* a control character other than '\n', '\r', '\t': it has no width
ZeroWidth(c) == is_control(c) /\ c \notin {10, 13, 9}

\* C11: next(pos, c) >= pos for every position and character, with equality
\* only when c is a zero-width control character.
C11_NextNeverGoesBack ==
    last.op = "pos_next"
    => /\ PosGE(last.end, last.pos)
       /\ last.end = last.pos => ZeroWidth(last.id)

\* C13 as stated: next(pos, '\t') keeps the line and sets the column to the
\* smallest multiple of 8 strictly greater than pos.column, for every position.
C13_TabStop ==
    (last.op = "pos_next" /\ last.id = 9)
    => /\ last.end.line = last.pos.line
       /\ last.end.column % 8 = 0
       /\ last.end.column > last.pos.column
       /\ last.end.column - last.pos.column <= 8

\* C13, amended: the same for every position whose column is at most
\* usize::MAX - 8, where that multiple of 8 still is a usize.
C13_TabStopInRange ==
    (last.op = "pos_next" /\ last.id = 9 /\ last.pos.column <= usize_MAX - 8)
    => /\ last.end.line = last.pos.line
       /\ last.end.column % 8 = 0
       /\ last.end.column > last.pos.column
       /\ last.end.column - last.pos.column <= 8

\* a tab was read at a tab stop, column 8, and moved the cursor to column 16
C13_Witness ==
    /\ last.op = "pos_next" /\ last.id = 9
    /\ last.pos.column = 8 /\ last.end.column = 16

\* C12: the covering span keeps start <= end in every reachable state: no
\* operation changes span.start, span.end is never before span.start, and
\* span.end never decreases from one snapshot of span() to the next.
C12_SpanGrows ==
    [][/\ p'.span.start = p.span.start
       /\ PosGE(p'.span.end, p'.span.start)
       /\ PosGE(p'.span.end, p.span.end)]_vars

\* the iterator has yielded a stream error
YieldedError(it) == \E n \in 1..Len(it.out) : it.out[n].tag = "Err"

\* C14: once next() of an iterator has yielded a stream error, every later
\* next() of that iterator yields nothing and pulls nothing from the stream.
C14_DoneAfterError ==
    [][\A k \in IterIds :
          (last'.op = "next" /\ last'.id = k /\ YieldedError(iters[k]))
          => (last'.res = None /\ p'.input = p.input)]_vars

RECURSIVE StoredPos(_, _)
\* the position after the first n characters of the store
StoredPos(b, n) ==
    IF n = 0 THEN b.span.start ELSE Position_next(StoredPos(b, n - 1), b.data[n])

\* pos is on a buffered line but not where a character starts: strictly inside
\* the columns a stored tab spans, or past the line's stored '\n'
OffBoundary(b, pos) ==
    \E n \in 1..Len(b.data) :
        LET from == StoredPos(b, n - 1)
            to == StoredPos(b, n)
        IN  /\ from.line = pos.line
            /\ \/ b.data[n] = 9 /\ from.column < pos.column /\ pos.column < to.column
               \/ b.data[n] = 10 /\ from.column < pos.column

\* C15: index_at(pos) and at(pos) return not-available, and leave a recorded
\* error in its slot, when pos is on a buffered line but strictly inside a tab
\* expansion or past the line's terminating newline.
C15_OffBoundaryIsNone ==
    [][(last'.op \in Lookups /\ OffBoundary(p', last'.pos))
       => /\ last'.res = None
          /\ p.error # NoError => p'.error = p.error]_vars

RECURSIVE Pulled(_)
Pulled(n) ==
    IF n = 0 THEN <<>>
    ELSE IF stream[n].tag = "Ok" THEN Append(Pulled(n - 1), stream[n].val)
    ELSE Pulled(n - 1)

\* C17: the character store is append-only and always holds, in order, the
\* characters pulled from the stream so far: no step pulls an item again,
\* changes or removes a stored character.
C17_StoreIsAppendOnly ==
    [][/\ p'.input >= p.input
       /\ Len(p'.data) >= Len(p.data)
       /\ SubSeq(p'.data, 1, Len(p.data)) = p.data
       /\ p'.data = Pulled(p'.input)]_vars

\* the stream failed after one character, and another character was pulled
\* and stored after the error
C17_Witness ==
    /\ Len(stream) = 3 /\ stream[2].tag = "Err"
    /\ p.input = 3 /\ Len(p.data) = 2

\* the store index just after the k-th '\n' of the store
NewlineEnd(k) ==
    CHOOSE i \in 1..Len(p.data) :
        p.data[i] = 10 /\ Cardinality({j \in 1..i : p.data[j] = 10}) = k

\* C18: in every reachable state, also after a fill that stopped in the middle
\* of a line and was resumed, lines[0] = 0, lines is strictly increasing, has
\* span.end.line - span.start.line + 1 entries, and lines[k] for k >= 1 is the
\* store index just after the k-th '\n'.
C18_LineIndex ==
    /\ p.lines[1] = 0
    /\ \A k \in 1..(Len(p.lines) - 1) : p.lines[k] < p.lines[k + 1]
    /\ Len(p.lines) = p.span.end.line - p.span.start.line + 1
    /\ Len(p.lines) = NewlinesIn(p.data) + 1
    /\ \A k \in 1..(Len(p.lines) - 1) : p.lines[k + 1] = NewlineEnd(k)

\* a line was begun, the stream failed in the middle of it, and a later fill
\* read the rest of the line and registered the next line
C18_Witness ==
    /\ Len(stream) = 3 /\ stream[1].tag = "Ok" /\ stream[2].tag = "Err"
    /\ p.input = 3 /\ p.lines = <<0, 2>>

\* at(pos) on a buffer just built over the same stream at the same anchor
FreshAt(pos) == Buffer_at(Inner_new(p.span.start), pos).res

\* C19: on an error-free stream with a fixed anchor, at(pos) is what a fresh
\* buffer answers, whatever lookups and iterator steps came before, and asking
\* again gives the same answer.
C19_CacheTransparency ==
    /\ \A pos \in CachePositions : Buffer_at(p, pos).res = FreshAt(pos)
    /\ last.op = "at"
       => /\ last.res = FreshAt(last.pos)
          /\ Buffer_at(p, last.pos).res = last.res

\* at() answered with a character of the second line from a store that an
\* iterator, driven to its end, had filled before
C19_Witness ==
    /\ iters[1].done /\ Len(iters[1].out) = 3
    /\ last.op = "at" /\ last.pos.line = 1 /\ last.res.tag = "Ok"

====
